---- MODULE Spec2Model ----
(***************************************************************************)
(* Model of src/main.go: CleanSpreadsheet (the row-transformation of an    *)
(* uploaded workbook into a credits CSV and a debits CSV) and uploadHandler *)
(* (the HTTP handler that stores the upload in a temporary file, calls     *)
(* CleanSpreadsheet and answers with a zip archive).                       *)
(*                                                                         *)
(* Strings are TLA+ strings; a character is a string of length one.        *)
(* Go indexes from 0, TLA+ sequences from 1: row[37] is Cell 38 here.      *)
(***************************************************************************)
EXTENDS Integers, Sequences, FiniteSets, TLC

\* ------------------------------------------------------------------------
\* Program constants of CleanSpreadsheet
\* ------------------------------------------------------------------------
HeadRows == 25
TailRows == 14
MinCells == 39
RefCol == 0
MemoCol == 24
AmountCol == 37

\* ------------------------------------------------------------------------
\* strings / strconv
\* ------------------------------------------------------------------------
Char(s, i) == SubSeq(s, i, i)

\* strings.HasPrefix(s, prefix)
HasPrefix(s, prefix) ==
    /\ Len(s) >= Len(prefix)
    /\ SubSeq(s, 1, Len(prefix)) = prefix

\* strings.Replace(s, old, "", -1) for a one-character old
RECURSIVE RemoveAll(_, _)
RemoveAll(s, old) ==
    IF Len(s) = 0 THEN ""
    ELSE (IF Char(s, 1) = old THEN "" ELSE Char(s, 1))
             \o RemoveAll(SubSeq(s, 2, Len(s)), old)

DigitChar(d) == SubSeq("0123456789", d + 1, d + 1)
IsDigit(c) == \E d \in 0..9 : DigitChar(d) = c
DigitVal(c) == CHOOSE d \in 0..9 : DigitChar(d) = c

RECURSIVE Pow10(_)
Pow10(n) == IF n = 0 THEN 1 ELSE 10 * Pow10(n - 1)

\* A float64 as far as the decimal inputs of the model go: a finite value
\* sign * mant / 10^scale (exact: the inputs have far fewer than 15
\* significant digits), an infinity, or NaN. neg is the IEEE sign bit, so
\* negative zero is a value of its own.
Finite(neg, mant, scale) ==
    [class |-> "finite", neg |-> neg, mant |-> mant, scale |-> scale]
Infinity(neg) == [class |-> "inf", neg |-> neg, mant |-> 0, scale |-> 0]
NaN == [class |-> "nan", neg |-> FALSE, mant |-> 0, scale |-> 0]

ParseOk(v) == [err |-> FALSE, val |-> v]
ParseErr == [err |-> TRUE, val |-> Finite(FALSE, 0, 0)]

\* strconv's special(): the spellings of infinity and NaN. The real function
\* compares case-insensitively; the inputs of the model use these spellings.
InfSpellings == {"Inf", "inf", "Infinity", "infinity"}
NaNSpellings == {"NaN", "nan"}

\* strconv's readFloat for base 10 without exponent: digits with at most one
\* '.', at least one digit, and the whole string consumed. st is the scan
\* state [mant, scale, sawdot, sawdigits].
RECURSIVE ReadDigits(_, _, _)
ReadDigits(s, i, st) ==
    IF i > Len(s) THEN [ok |-> st.sawdigits, mant |-> st.mant, scale |-> st.scale]
    ELSE LET c == Char(s, i) IN
         IF IsDigit(c)
         THEN ReadDigits(s, i + 1,
                  [st EXCEPT !.mant = st.mant * 10 + DigitVal(c),
                             !.scale = IF st.sawdot THEN st.scale + 1 ELSE st.scale,
                             !.sawdigits = TRUE])
         ELSE IF c = "." /\ ~st.sawdot
         THEN ReadDigits(s, i + 1, [st EXCEPT !.sawdot = TRUE])
         ELSE [ok |-> FALSE, mant |-> 0, scale |-> 0]

\* strconv.ParseFloat(s, 64)
ParseFloat(s) ==
    LET signed == Len(s) > 0 /\ Char(s, 1) \in {"+", "-"}
        neg == Len(s) > 0 /\ Char(s, 1) = "-"
        rest == IF signed THEN SubSeq(s, 2, Len(s)) ELSE s
        r == ReadDigits(rest, 1,
                 [mant |-> 0, scale |-> 0, sawdot |-> FALSE, sawdigits |-> FALSE])
    IN  IF rest \in InfSpellings THEN ParseOk(Infinity(neg))
        ELSE IF s \in NaNSpellings THEN ParseOk(NaN)
        ELSE IF r.ok THEN ParseOk(Finite(neg, r.mant, r.scale))
        ELSE ParseErr

\* Go's unary minus on a float64
Negate(v) == IF v.class = "nan" THEN v ELSE [v EXCEPT !.neg = ~v.neg]

RECURSIVE NatToString(_)
NatToString(n) ==
    IF n < 10 THEN DigitChar(n)
    ELSE NatToString(n \div 10) \o DigitChar(n % 10)

\* The fraction digits of mant / 10^scale: exactly scale digits
RECURSIVE FracDigits(_, _)
FracDigits(frac, scale) ==
    IF scale = 0 THEN ""
    ELSE FracDigits(frac \div 10, scale - 1) \o DigitChar(frac % 10)

\* Drop the trailing zeros of the fraction: the shortest decimal that parses
\* back to the same value
RECURSIVE Shortest(_, _)
Shortest(mant, scale) ==
    IF scale > 0 /\ mant % 10 = 0 THEN Shortest(mant \div 10, scale - 1)
    ELSE [mant |-> mant, scale |-> scale]

\* strconv.FormatFloat(v, 'f', -1, 64)
FormatFloat(v) ==
    IF v.class = "nan" THEN "NaN"
    ELSE IF v.class = "inf" THEN (IF v.neg THEN "-Inf" ELSE "+Inf")
    ELSE LET n == Shortest(v.mant, v.scale)
             p == Pow10(n.scale)
         IN  (IF v.neg THEN "-" ELSE "")
                 \o NatToString(n.mant \div p)
                 \o (IF n.scale > 0 THEN "." \o FracDigits(n.mant % p, n.scale)
                     ELSE "")

\* ------------------------------------------------------------------------
\* encoding/csv Writer
\* ------------------------------------------------------------------------
\* csv.Writer.fieldNeedsQuotes with Comma = ','
FieldNeedsQuotes(field) ==
    IF field = "" THEN FALSE
    ELSE IF field = "\\." THEN TRUE
    ELSE \/ \E i \in 1..Len(field) : Char(field, i) \in {",", "\"", "\r", "\n"}
         \/ Char(field, 1) \in {" ", "\t"}

\* The body of a quoted field: '"' doubled, '\r' dropped (UseCRLF is false)
RECURSIVE QuoteBody(_)
QuoteBody(field) ==
    IF Len(field) = 0 THEN ""
    ELSE LET c == Char(field, 1) IN
         (IF c = "\"" THEN "\"\"" ELSE IF c = "\r" THEN "" ELSE c)
             \o QuoteBody(SubSeq(field, 2, Len(field)))

CsvField(field) ==
    IF FieldNeedsQuotes(field) THEN "\"" \o QuoteBody(field) \o "\"" ELSE field

\* The line csv.Writer.Write(record) adds to its buffer
RECURSIVE CsvJoin(_)
CsvJoin(record) ==
    IF Len(record) = 0 THEN ""
    ELSE IF Len(record) = 1 THEN CsvField(record[1])
    ELSE CsvField(record[1]) \o "," \o CsvJoin(Tail(record))

CsvLine(record) == CsvJoin(record) \o "\n"

\* ------------------------------------------------------------------------
\* The workbook (excelize)
\* ------------------------------------------------------------------------
\* A worksheet row is kept by what CleanSpreadsheet can read of it: w, the
\* number of cells GetRows returns for it (up to its last non-empty cell),
\* and the cells of columns 0, 24 and 37. Every other cell reads "".
MkRow(w, ref, memo, amt) == [w |-> w, ref |-> ref, memo |-> memo, amt |-> amt]

\* The []string GetRows returns for a row (index j of Go is j + 1 here)
Cells(r) ==
    [j \in 1..r.w |->
        IF j = RefCol + 1 THEN r.ref
        ELSE IF j = MemoCol + 1 THEN r.memo
        ELSE IF j = AmountCol + 1 THEN r.amt
        ELSE ""]

\* excelize GetRows: the rows of the sheet up to the last row that has a cell
\* (the blank rows at the end of a sheet are not returned)
GetRows(sheetRows) ==
    LET used == {i \in 1..Len(sheetRows) : sheetRows[i].w > 0}
        last == IF used = {} THEN 0
                ELSE CHOOSE i \in used : \A k \in used : k <= i
    IN  SubSeq(sheetRows, 1, last)

\* excelize RemoveRow(sheet, row): row is an Excel row number (from 1); a
\* number below 1 is an error, a row past the end removes nothing, and the
\* rows below the removed one move up by one.
RemoveRow(sheetRows, row) ==
    IF row < 1 THEN [err |-> "invalid row number", rows |-> sheetRows]
    ELSE IF row > Len(sheetRows) THEN [err |-> "", rows |-> sheetRows]
    ELSE [err |-> "",
          rows |-> SubSeq(sheetRows, 1, row - 1)
                       \o SubSeq(sheetRows, row + 1, Len(sheetRows))]

\* ------------------------------------------------------------------------
\* CleanSpreadsheet: the loops, as functions of the data they work on
\* ------------------------------------------------------------------------
\* for i := 1; i <= 25; i++ { f.RemoveRow(sheet, i) }
RECURSIVE HeadTrimLoop(_, _)
HeadTrimLoop(sheetRows, i) ==
    IF i > HeadRows THEN [err |-> "", rows |-> sheetRows]
    ELSE LET r == RemoveRow(sheetRows, i) IN
         IF r.err # "" THEN r ELSE HeadTrimLoop(r.rows, i + 1)

\* for i := len(rows) - 14; i < len(rows); i++ { f.RemoveRow(sheet, i+1) }
\* n is len(rows), read once before the loop
RECURSIVE TailTrimLoop(_, _, _)
TailTrimLoop(sheetRows, i, n) ==
    IF i >= n THEN [err |-> "", rows |-> sheetRows]
    ELSE LET r == RemoveRow(sheetRows, i + 1) IN
         IF r.err # "" THEN r ELSE TailTrimLoop(r.rows, i + 1, n)

TailTrim(sheetRows) ==
    LET n == Len(GetRows(sheetRows)) IN TailTrimLoop(sheetRows, n - TailRows, n)

SkipRowOneCellLess(rowIndex, row) == rowIndex = 0 \/ Len(row) < MinCells - 1

\* if rowIndex == 0 || len(row) < 39 { continue }
SkipRow(rowIndex, row) == rowIndex = 0 \/ Len(row) < MinCells

\* if amountStr == "" || amountStr == "Amount" { continue }
SkipAmount(amountStr) == amountStr = "" \/ amountStr = "Amount"

IsCreditBySign(amountStr, amount) ==
    amount.class # "nan" /\ amount.neg /\ (amount.class = "inf" \/ amount.mant > 0)

\* if strings.HasPrefix(amountStr, "-")
IsCredit(amountStr, amount) == HasPrefix(amountStr, "-")

CreditAmountSigned(amount) == FormatFloat(amount)

\* positiveAmount := strconv.FormatFloat(-amount, 'f', -1, 64)
CreditAmount(amount) == FormatFloat(Negate(amount))

\* formattedAmount := strconv.FormatFloat(amount, 'f', -1, 64)
DebitAmount(amount) == FormatFloat(amount)

OnParseErrorAbort(bufs) == [bufs EXCEPT !.err = "parse"]

\* What a parse error does to the run: the row is skipped (continue)
OnParseError(bufs) == bufs

\* One pass of the body of `for rowIndex, row := range rows`. bufs is what the
\* two csv writers hold: [credit, debit, err].
EmitRow(rowIndex, row, bufs) ==
    IF SkipRow(rowIndex, row) THEN bufs
    ELSE LET amountStr == RemoveAll(row[AmountCol + 1], ",") IN
         IF SkipAmount(amountStr) THEN bufs
         ELSE LET p == ParseFloat(amountStr) IN
              IF p.err THEN OnParseError(bufs)
              ELSE IF IsCredit(amountStr, p.val)
              THEN [bufs EXCEPT !.credit = @ \o CsvLine(
                       <<row[RefCol + 1], row[MemoCol + 1], CreditAmount(p.val)>>)]
              ELSE [bufs EXCEPT !.debit = @ \o CsvLine(
                       <<row[RefCol + 1], row[MemoCol + 1], DebitAmount(p.val)>>)]

RECURSIVE RowLoop(_, _, _)
RowLoop(rs, rowIndex, bufs) ==
    IF rowIndex >= Len(rs) \/ bufs.err # "" THEN bufs
    ELSE RowLoop(rs, rowIndex + 1, EmitRow(rowIndex, Cells(rs[rowIndex + 1]), bufs))

FlushWriterReset(builder, buf) == buf

\* csv.Writer.Flush: what the writer holds goes to its strings.Builder
FlushWriter(builder, buf) == builder \o buf

NoBufs == [credit |-> "", debit |-> "", err |-> ""]
Failed(e) == [credit |-> "", debit |-> "", err |-> e]

\* The body of `for _, sheet := range f.GetSheetList()` from sheet s on, with
\* out = [credit, debit] the two strings.Builder
RECURSIVE SheetLoop(_, _, _)
SheetLoop(sheets, s, out) ==
    IF s > Len(sheets) THEN [credit |-> out.credit, debit |-> out.debit, err |-> ""]
    ELSE LET head == HeadTrimLoop(sheets[s].rows, 1)
             tail == TailTrim(head.rows)
             rs == GetRows(tail.rows)
             bufs == RowLoop(rs, 0, NoBufs)
         IN  IF head.err # "" THEN Failed(head.err)
             ELSE IF tail.err # "" THEN Failed(tail.err)
             ELSE IF Len(rs) = 0 THEN SheetLoop(sheets, s + 1, out)
             ELSE IF bufs.err # "" THEN Failed(bufs.err)
             ELSE SheetLoop(sheets, s + 1,
                      [credit |-> FlushWriter(out.credit, bufs.credit),
                       debit |-> FlushWriter(out.debit, bufs.debit)])

\* CleanSpreadsheet(filePath), of the workbook stored at filePath
CleanSpreadsheet(wb) ==
    IF ~wb.ok THEN Failed("open")
    ELSE SheetLoop(wb.sheets, 1, [credit |-> "", debit |-> ""])

\* ------------------------------------------------------------------------
\* Bounds and the workbooks the model is run on
\* ------------------------------------------------------------------------
MaxRows == 55
MaxSheets == 2
NumReqs == 2

\* The kinds of row a sheet is made of: <<cells, memo, amount>>
RowKinds ==
    << <<39, "PAY", "-100">>,
       <<40, "FEE", "500">>,
       <<39, "A,B", "-1,234.50">>,
       <<38, "SHORT", "250">>,
       <<39, "Memo", "Amount">>,
       <<39, "NOAMT", "">>,
       <<39, "BAD", "N/A">>,
       <<39, "ZERO", "-0">>,
       <<0, "", "">>,
       <<41, " lead", "0.50">>,
       <<39, "SPACE", " -5">>,
       <<39, "INF", "-Inf">>,
       <<39, "PLUS", "+7">>,
       <<39, "COMMA", ",">>,
       <<39, "NAN", "NaN">>,
       <<39, "Q\"", "1,000,000.00">>,
       <<10, "", "">> >>

NumKinds == Len(RowKinds)

\* Row i of sheet s, of kind k. Its reference names where it comes from.
KindRow(k, s, i) ==
    LET kind == RowKinds[k] IN
    MkRow(kind[1],
          IF kind[1] > 0 THEN "S" \o NatToString(s) \o "R" \o NatToString(i) ELSE "",
          kind[2], kind[3])

\* A sheet of n rows; row i is of kind ((a * i + b) mod NumKinds) + 1: with
\* a = 0 every row is of one kind, with a = 1 the kinds follow one another.
LayoutSheet(s, n, a, b) ==
    [rows |-> [i \in 1..n |-> KindRow(((a * i + b) % NumKinds) + 1, s, i)],
     merges |-> IF b % 2 = 0 THEN {} ELSE {<<"A1", "C2">>}]

\* The workbook of the end-to-end example: 26 header rows, one data row and
\* 14 footer rows
E2ERows ==
    [i \in 1..41 |->
        IF i <= 26 THEN MkRow(2, "Statement", "", "")
        ELSE IF i = 27 THEN MkRow(39, "REF1", "MEMO1", "-100")
        ELSE MkRow(1, "Total", "", "")]

E2EWorkbook == [ok |-> TRUE, sheets |-> <<[rows |-> E2ERows, merges |-> {<<"A1", "F1">>}]>>]

Layouts == {0, 1} \X (0..(NumKinds - 1))

OneSheetWorkbooks ==
    {[ok |-> TRUE, sheets |-> <<LayoutSheet(1, n, l[1], l[2])>>] :
        n \in 0..MaxRows, l \in Layouts}

\* The sheets of the workbooks of several sheets: too short to survive the
\* trim, or long enough to emit records
SomeSheetShapes ==
    {<<0, 0, 0>>, <<27, 1, 0>>, <<28, 1, 3>>, <<MaxRows, 1, 0>>,
     <<MaxRows, 0, 0>>, <<MaxRows, 0, 1>>, <<MaxRows - 1, 1, 5>>, <<MaxRows, 0, 8>>}

ManySheetWorkbooks ==
    {[ok |-> TRUE,
      sheets |-> [s \in 1..k |-> LayoutSheet(s, sh[s][1], sh[s][2], sh[s][3])]] :
        k \in {MaxSheets}, sh \in [1..MaxSheets -> SomeSheetShapes]}

\* A file excelize.OpenFile cannot open
BadWorkbook == [ok |-> FALSE, sheets |-> <<>>]

Workbooks ==
    OneSheetWorkbooks \cup ManySheetWorkbooks \cup {E2EWorkbook, BadWorkbook}

\* ------------------------------------------------------------------------
\* State
\* ------------------------------------------------------------------------
VARIABLES
    wb,          \* the workbook at filePath, as uploaded
    pc,          \* where CleanSpreadsheet is
    f,           \* the sheets of the open excelize file
    sheet,       \* the index in GetSheetList of the sheet being processed
    rows,        \* the local `rows` (the last GetRows result)
    rowIndex,    \* the index of the next row of `range rows`
    creditBuf,   \* what creditWriter holds and has not flushed
    debitBuf,    \* what debitWriter holds and has not flushed
    creditCSV,   \* the strings.Builder creditCSV
    debitCSV,    \* the strings.Builder debitCSV
    ret,         \* the values CleanSpreadsheet returned: [credit, debit, err]
    hpc,         \* uploadHandler: where each request is
    disk,        \* the temporary directory: file name -> the workbook stored
    tmpName,     \* uploadHandler: tmpFile.Name() of each request ("" before)
    result,      \* uploadHandler: what CleanSpreadsheet returned to the request
    archive,     \* uploadHandler: the entries written to zipWriter
    resp         \* the response of each request: [code, msg, zip]

cleanVars == <<wb, pc, f, sheet, rows, rowIndex, creditBuf, debitBuf,
               creditCSV, debitCSV, ret>>

handlerVars == <<hpc, disk, tmpName, result, archive, resp>>

vars == <<cleanVars, handlerVars>>

NoReturn == [credit |-> "", debit |-> "", err |-> "pending"]

CleanInit(books) ==
    /\ wb \in books
    /\ pc = "open"
    /\ f = <<>>
    /\ sheet = 0
    /\ rows = <<>>
    /\ rowIndex = 0
    /\ creditBuf = ""
    /\ debitBuf = ""
    /\ creditCSV = ""
    /\ debitCSV = ""
    /\ ret = NoReturn

\* return "", "", err: the deferred Flush calls run after the return values
\* are set
ReturnError(e) ==
    /\ pc' = "done"
    /\ ret' = Failed(e)
    /\ creditCSV' = FlushWriter(creditCSV, creditBuf)
    /\ debitCSV' = FlushWriter(debitCSV, debitBuf)
    /\ creditBuf' = ""
    /\ debitBuf' = ""

\* The next iteration of `for _, sheet := range f.GetSheetList()`
NextSheet ==
    IF sheet < Len(f)
    THEN /\ sheet' = sheet + 1
         /\ pc' = "unmerge"
    ELSE /\ sheet' = sheet
         /\ pc' = "return"

\* f, err := excelize.OpenFile(filePath)
OpenFile ==
    /\ UNCHANGED handlerVars
    /\ pc = "open"
    /\ IF ~wb.ok
       THEN /\ ReturnError("open")
            /\ UNCHANGED <<f, sheet>>
       ELSE /\ f' = wb.sheets
            /\ sheet' = 1
            /\ pc' = IF Len(wb.sheets) = 0 THEN "return" ELSE "unmerge"
            /\ UNCHANGED <<creditBuf, debitBuf, creditCSV, debitCSV, ret>>
    /\ UNCHANGED <<wb, rows, rowIndex>>

\* GetMergeCells and UnmergeCell of every merged range of the sheet
Unmerge ==
    /\ UNCHANGED handlerVars
    /\ pc = "unmerge"
    /\ f' = [f EXCEPT ![sheet].merges = {}]
    /\ pc' = "head"
    /\ UNCHANGED <<wb, sheet, rows, rowIndex, creditBuf, debitBuf,
                   creditCSV, debitCSV, ret>>

\* Remove the first 25 rows
HeadTrim ==
    /\ UNCHANGED handlerVars
    /\ pc = "head"
    /\ LET r == HeadTrimLoop(f[sheet].rows, 1) IN
       IF r.err # ""
       THEN /\ ReturnError(r.err)
            /\ UNCHANGED f
       ELSE /\ f' = [f EXCEPT ![sheet].rows = r.rows]
            /\ pc' = "tail"
            /\ UNCHANGED <<creditBuf, debitBuf, creditCSV, debitCSV, ret>>
    /\ UNCHANGED <<wb, sheet, rows, rowIndex>>

\* Remove the last 14 rows
TailTrimStep ==
    /\ UNCHANGED handlerVars
    /\ pc = "tail"
    /\ rows' = GetRows(f[sheet].rows)
    /\ LET r == TailTrim(f[sheet].rows) IN
       /\ f' = [f EXCEPT ![sheet].rows = r.rows]
       /\ IF r.err # ""
          THEN ReturnError(r.err)
          ELSE /\ pc' = "reread"
               /\ UNCHANGED <<creditBuf, debitBuf, creditCSV, debitCSV, ret>>
    /\ UNCHANGED <<wb, sheet, rowIndex>>

\* Re-read rows after removals; a sheet without rows is skipped
ReRead ==
    /\ UNCHANGED handlerVars
    /\ pc = "reread"
    /\ rows' = GetRows(f[sheet].rows)
    /\ rowIndex' = 0
    /\ IF Len(rows') = 0
       THEN NextSheet
       ELSE /\ pc' = "rows"
            /\ sheet' = sheet
    /\ UNCHANGED <<wb, f, creditBuf, debitBuf, creditCSV, debitCSV, ret>>

\* One row of `for rowIndex, row := range rows`
ProcessRow ==
    /\ UNCHANGED handlerVars
    /\ pc = "rows"
    /\ rowIndex < Len(rows)
    /\ LET b == EmitRow(rowIndex, Cells(rows[rowIndex + 1]),
                        [credit |-> creditBuf, debit |-> debitBuf, err |-> ""])
       IN  IF b.err # ""
           THEN /\ ReturnError(b.err)
                /\ UNCHANGED rowIndex
           ELSE /\ creditBuf' = b.credit
                /\ debitBuf' = b.debit
                /\ rowIndex' = rowIndex + 1
                /\ UNCHANGED <<pc, creditCSV, debitCSV, ret>>
    /\ UNCHANGED <<wb, f, sheet, rows>>

\* creditWriter.Flush(); debitWriter.Flush() at the end of the sheet
FlushSheet ==
    /\ UNCHANGED handlerVars
    /\ pc = "rows"
    /\ rowIndex >= Len(rows)
    /\ creditCSV' = FlushWriter(creditCSV, creditBuf)
    /\ debitCSV' = FlushWriter(debitCSV, debitBuf)
    /\ creditBuf' = ""
    /\ debitBuf' = ""
    /\ NextSheet
    /\ UNCHANGED <<wb, f, rows, rowIndex, ret>>

\* return creditCSV.String(), debitCSV.String(), nil; then the deferred
\* Flush calls
Return ==
    /\ UNCHANGED handlerVars
    /\ pc = "return"
    /\ ret' = [credit |-> creditCSV, debit |-> debitCSV, err |-> ""]
    /\ creditCSV' = FlushWriter(creditCSV, creditBuf)
    /\ debitCSV' = FlushWriter(debitCSV, debitBuf)
    /\ creditBuf' = ""
    /\ debitBuf' = ""
    /\ pc' = "done"
    /\ UNCHANGED <<wb, f, sheet, rows, rowIndex>>

\* ------------------------------------------------------------------------
\* uploadHandler, one run per request
\* ------------------------------------------------------------------------
Reqs == 1..NumReqs

\* The names os.CreateTemp("", "uploaded-*.xlsx") can give
TmpNames == {"uploaded-" \o NatToString(i) \o ".xlsx" : i \in 1..NumReqs}

\* The workbooks the requests upload: one that does not open, one that
\* yields no record, one that yields credits and debits
UploadBooks ==
    {BadWorkbook, E2EWorkbook,
     [ok |-> TRUE, sheets |-> <<LayoutSheet(1, MaxRows, 1, 0)>>]}

\* os.Remove(name)
RemoveFile(d, name) == [n \in DOMAIN d \ {name} |-> d[n]]

OnReturnKeep(d, name) == d

\* defer os.Remove(tmpFile.Name()): what the return of the handler does to
\* the temporary directory; name is "" when the defer was not reached
OnReturn(d, name) == IF name = "" THEN d ELSE RemoveFile(d, name)

NoResponse == [code |-> 0, msg |-> "", zip |-> <<>>]

HandlerInit ==
    /\ hpc = [r \in Reqs |-> "method"]
    /\ disk = <<>>
    /\ tmpName = [r \in Reqs |-> ""]
    /\ result = [r \in Reqs |-> NoReturn]
    /\ archive = [r \in Reqs |-> <<>>]
    /\ resp = [r \in Reqs |-> NoResponse]

\* The return of the handler: its deferred calls run and its locals are gone
ReturnFromHandler(r) ==
    /\ hpc' = [hpc EXCEPT ![r] = "done"]
    /\ disk' = OnReturn(disk, tmpName[r])
    /\ tmpName' = [tmpName EXCEPT ![r] = ""]
    /\ result' = [result EXCEPT ![r] = NoReturn]
    /\ archive' = [archive EXCEPT ![r] = <<>>]

\* http.Error(w, msg, code); return
Exit(r, code, msg) ==
    /\ resp' = [resp EXCEPT ![r] = [code |-> code, msg |-> msg, zip |-> <<>>]]
    /\ ReturnFromHandler(r)

\* The handler goes on to its next statement
Goto(r, label) ==
    /\ hpc' = [hpc EXCEPT ![r] = label]
    /\ UNCHANGED resp

\* if r.Method != "POST"
CheckMethod(r) ==
    /\ UNCHANGED cleanVars
    /\ hpc[r] = "method"
    /\ \E method \in {"POST", "GET"} :
          IF method # "POST"
          THEN Exit(r, 405, "Only POST method is allowed")
          ELSE Goto(r, "form") /\ UNCHANGED <<disk, tmpName, result, archive>>

\* file, _, err := r.FormFile("file")
FormFile(r) ==
    /\ UNCHANGED cleanVars
    /\ hpc[r] = "form"
    /\ \E ok \in BOOLEAN :
          IF ~ok
          THEN Exit(r, 400, "Unable to read file from form")
          ELSE Goto(r, "create") /\ UNCHANGED <<disk, tmpName, result, archive>>

\* tmpFile, err := os.CreateTemp("", "uploaded-*.xlsx"): a new, empty file
\* under a name no file has
CreateTemp(r) ==
    /\ UNCHANGED cleanVars
    /\ hpc[r] = "create"
    /\ \/ Exit(r, 500, "Unable to create temporary file")
       \/ \E name \in TmpNames \ DOMAIN disk :
             /\ disk' = [n \in DOMAIN disk \cup {name} |->
                            IF n = name THEN BadWorkbook ELSE disk[n]]
             /\ tmpName' = [tmpName EXCEPT ![r] = name]
             /\ Goto(r, "copy")
             /\ UNCHANGED <<result, archive>>

\* io.Copy(tmpFile, file)
CopyUpload(r) ==
    /\ UNCHANGED cleanVars
    /\ hpc[r] = "copy"
    /\ \/ Exit(r, 500, "Unable to save uploaded file")
       \/ \E book \in UploadBooks :
             /\ disk' = [disk EXCEPT ![tmpName[r]] = book]
             /\ Goto(r, "clean")
             /\ UNCHANGED <<tmpName, result, archive>>

\* creditCSV, debitCSV, err := CleanSpreadsheet(tmpFile.Name())
CallClean(r) ==
    /\ UNCHANGED cleanVars
    /\ hpc[r] = "clean"
    /\ LET res == CleanSpreadsheet(disk[tmpName[r]]) IN
       IF res.err # ""
       THEN Exit(r, 500, "Error processing file: " \o res.err)
       ELSE /\ result' = [result EXCEPT ![r] = res]
            /\ Goto(r, "check")
            /\ UNCHANGED <<disk, tmpName, archive>>

\* if creditCSV == "" && debitCSV == ""
CheckEmpty(r) ==
    /\ UNCHANGED cleanVars
    /\ hpc[r] = "check"
    /\ IF result[r].credit = "" /\ result[r].debit = ""
       THEN Exit(r, 500, "No data processed from the file")
       ELSE Goto(r, "zipCredits") /\ UNCHANGED <<disk, tmpName, result, archive>>

\* zipWriter.Create("credits.csv"); creditFile.Write([]byte(creditCSV))
ZipCredits(r) ==
    /\ UNCHANGED cleanVars
    /\ hpc[r] = "zipCredits"
    /\ \/ Exit(r, 500, "Error creating zip file: ")
       \/ /\ archive' = [archive EXCEPT ![r] =
                 Append(@, [name |-> "credits.csv", data |-> result[r].credit])]
          /\ Goto(r, "zipDebits")
          /\ UNCHANGED <<disk, tmpName, result>>

\* zipWriter.Create("debits.csv"); debitFile.Write([]byte(debitCSV))
ZipDebits(r) ==
    /\ UNCHANGED cleanVars
    /\ hpc[r] = "zipDebits"
    /\ \/ Exit(r, 500, "Error creating zip file: ")
       \/ /\ archive' = [archive EXCEPT ![r] =
                 Append(@, [name |-> "debits.csv", data |-> result[r].debit])]
          /\ Goto(r, "zipClose")
          /\ UNCHANGED <<disk, tmpName, result>>

\* zipWriter.Close()
ZipClose(r) ==
    /\ UNCHANGED cleanVars
    /\ hpc[r] = "zipClose"
    /\ \/ Exit(r, 500, "Error closing zip file: ")
       \/ Goto(r, "write") /\ UNCHANGED <<disk, tmpName, result, archive>>

\* w.Write(buf.Bytes()), then the return of the handler
WriteResponse(r) ==
    /\ UNCHANGED cleanVars
    /\ hpc[r] = "write"
    /\ \E ok \in BOOLEAN :
          IF ok
          THEN /\ resp' = [resp EXCEPT ![r] =
                      [code |-> 200, msg |-> "", zip |-> archive[r]]]
               /\ ReturnFromHandler(r)
          ELSE Exit(r, 500, "Error writing response: ")

\* CleanSpreadsheet, run step by step on every workbook of the model
Init == CleanInit(Workbooks) /\ HandlerInit

Next ==
    \/ OpenFile
    \/ Unmerge
    \/ HeadTrim
    \/ TailTrimStep
    \/ ReRead
    \/ ProcessRow
    \/ FlushSheet
    \/ Return

Spec == Init /\ [][Next]_vars

\* The server: the requests run uploadHandler concurrently
InitUpload == CleanInit({BadWorkbook}) /\ HandlerInit

NextUpload ==
    \/ \E r \in Reqs : CheckMethod(r)
    \/ \E r \in Reqs : FormFile(r)
    \/ \E r \in Reqs : CreateTemp(r)
    \/ \E r \in Reqs : CopyUpload(r)
    \/ \E r \in Reqs : CallClean(r)
    \/ \E r \in Reqs : CheckEmpty(r)
    \/ \E r \in Reqs : ZipCredits(r)
    \/ \E r \in Reqs : ZipDebits(r)
    \/ \E r \in Reqs : ZipClose(r)
    \/ \E r \in Reqs : WriteResponse(r)

SpecUpload == InitUpload /\ [][NextUpload]_vars

\* ------------------------------------------------------------------------
\* Properties
\* ------------------------------------------------------------------------
\* The stepwise run returns what the function CleanSpreadsheet computes
StepwiseAgrees == pc = "done" => ret = CleanSpreadsheet(wb)

\* The rows of the current sheet as uploaded
UploadedRows == wb.sheets[sheet].rows

\* The row ProcessRow is about to take
AtRow == pc = "rows" /\ rowIndex < Len(rows)
CurrentRow == rows[rowIndex + 1]

\* What a step added to a buffer ("?" if the step did not only add)
Added(old, new) ==
    IF HasPrefix(new, old) THEN SubSeq(new, Len(old) + 1, Len(new)) ELSE "?"

HasSuffix(s, suffix) ==
    /\ Len(s) >= Len(suffix)
    /\ SubSeq(s, Len(s) - Len(suffix) + 1, Len(s)) = suffix

Contains(s, c) == \E i \in 1..Len(s) : Char(s, i) = c

CountLines(s) == Cardinality({i \in 1..Len(s) : Char(s, i) = "\n"})

\* The comma-stripped amount of a row of at least 38 cells
Stripped(r) == RemoveAll(r.amt, ",")

\* A row that passes validation, by the conditions of C6 and C9
PassesValidation(idx, r) ==
    /\ idx > 0
    /\ r.w >= 39
    /\ Stripped(r) # ""
    /\ Stripped(r) # "Amount"
    /\ ~ParseFloat(Stripped(r)).err

\* The start of the record of row r: its reference and its memo
RecordStart(r) == CsvField(r.ref) \o "," \o CsvField(r.memo) \o ","

\* text is one record of row r: reference, memo, one more field, one line
OneRecordOf(r, text) ==
    /\ HasPrefix(text, RecordStart(r))
    /\ CountLines(text) = 1
    /\ Char(text, Len(text)) = "\n"

\* The amount field of a one-record text of row r, as written
AmountField(r, text) == SubSeq(text, Len(RecordStart(r)) + 1, Len(text) - 1)

\* C1 - after the head-trim loop, a sheet that had at least 25 rows holds
\* exactly its original rows 26, 27, ... in order.
C1_HeadTrimRemovesFirst25 ==
    (pc = "tail" /\ Len(UploadedRows) >= HeadRows)
        => f[sheet].rows = SubSeq(UploadedRows, HeadRows + 1, Len(UploadedRows))

\* C2 - after the tail-trim loop, a sheet that had n >= 14 rows after the
\* head trim (the local rows) holds exactly the first n - 14 of them.
C2_TailTrimRemovesLast14 ==
    (pc = "reread" /\ Len(rows) >= TailRows)
        => GetRows(f[sheet].rows) = SubSeq(rows, 1, Len(rows) - TailRows)

\* C3 - the end-to-end workbook (26 header rows, the REF1 row, 14 footer
\* rows) returns credits "REF1,MEMO1,100\n", debits "" and no error.
C3_EndToEnd ==
    (pc = "done" /\ wb = E2EWorkbook)
        => ret = [credit |-> "REF1,MEMO1,100\n", debit |-> "", err |-> ""]

\* A workbook with an empty sheet whose other sheets all have more rows than
\* the trim removes
HasEmptySheet(book) ==
    /\ book.ok
    /\ \E s \in 1..Len(book.sheets) : Len(book.sheets[s].rows) = 0
    /\ \A s \in 1..Len(book.sheets) :
          \/ Len(book.sheets[s].rows) = 0
          \/ Len(book.sheets[s].rows) > HeadRows + TailRows

NotEmptySheet(sh) == Len(sh.rows) > 0

\* C4 - an empty sheet is skipped: in a workbook whose other sheets all have
\* more rows than the trim removes, CleanSpreadsheet returns no error and
\* returns what it returns for the workbook without its empty sheets.
C4_EmptySheetSkipped ==
    (pc = "done" /\ HasEmptySheet(wb))
        => /\ ret.err = ""
           /\ ret = CleanSpreadsheet(
                  [wb EXCEPT !.sheets = SelectSeq(wb.sheets, NotEmptySheet)])

\* C5 (as claimed) - a sheet with fewer than 40 rows left after the trim
\* emits no record.
C5_FewRowsNoRecords ==
    (pc = "rows" /\ Len(rows) < 40) => (creditBuf = "" /\ debitBuf = "")

\* C5 (amended) - in every sheet, as long as the rows taken so far (after row
\* index 0) all have fewer than 39 cells, nothing has been emitted: a sheet
\* whose rows all have fewer than 39 cells emits no record.
C5_ShortRowsNoRecords ==
    (pc = "rows" /\ \A i \in 2..rowIndex : rows[i].w < MinCells)
        => (creditBuf = "" /\ debitBuf = "")

\* C5 witness - a sheet of rows of 38 cells, each with an amount in column
\* 37, has been taken to its end.
C5_Witness ==
    /\ pc = "rows"
    /\ rowIndex = Len(rows)
    /\ rowIndex >= 3
    /\ \A i \in 1..Len(rows) : rows[i].w = 38 /\ rows[i].amt = "250"

\* What C6 says of one step
C6_Step ==
    (AtRow /\ PassesValidation(rowIndex, CurrentRow)) =>
        LET r == CurrentRow
            credit == Added(creditBuf, creditBuf')
            debit == Added(debitBuf, debitBuf')
        IN  /\ IF HasPrefix(Stripped(r), "-")
               THEN OneRecordOf(r, credit) /\ debit = ""
               ELSE OneRecordOf(r, debit) /\ credit = ""
            /\ (r.amt = "-0" => credit = CsvLine(<<r.ref, r.memo, "0">>))
            /\ (r.amt = "-1,234.50"
                   => credit = CsvLine(<<r.ref, r.memo, "1234.5">>))
            /\ (r.amt = "500" => debit = CsvLine(<<r.ref, r.memo, "500">>))

\* C6 - a step that takes a row passing validation adds exactly one record
\* of that row, to credits iff the comma-stripped amount starts with "-" and
\* to debits otherwise, and leaves the other output alone; "-0" is a credit,
\* "-1,234.50" a credit of amount "1234.5", "500" a debit of amount "500".
C6_BucketDecision == [][C6_Step]_vars

\* C6 witness - a sheet has emitted credits for "-0" and "-1,234.50" and a
\* debit for "500".
C6_Witness ==
    /\ pc = "rows"
    /\ rowIndex >= 2
    /\ rows[rowIndex].amt = "-0"
    /\ \E i \in 2..rowIndex : rows[i].amt = "-1,234.50"
    /\ \E i \in 2..rowIndex : rows[i].amt = "500"
    /\ CountLines(creditBuf) >= 2
    /\ CountLines(debitBuf) >= 1

\* What C7 says of one step
C7_Step ==
    AtRow =>
        LET r == CurrentRow
            text == Added(creditBuf, creditBuf') \o Added(debitBuf, debitBuf')
        IN  text # "" =>
               /\ OneRecordOf(r, text)
               /\ ~HasPrefix(AmountField(r, text), "-")
               /\ ~Contains(AmountField(r, text), ",")

\* C7 - the amount field of every record a step emits, in either output,
\* does not start with "-" and holds no ",".
C7_AmountNonNegative == [][C7_Step]_vars

\* C7 witness - a credit of amount "1234.5" was emitted for "-1,234.50"
\* and a debit of amount "1000000" for "1,000,000.00".
C7_Witness ==
    /\ pc = "rows"
    /\ rowIndex >= 2
    /\ rows[rowIndex].amt = "-1,234.50"
    /\ HasSuffix(creditBuf, CsvLine(
           <<rows[rowIndex].ref, rows[rowIndex].memo, "1234.5">>))
    /\ \E i \in 2..rowIndex :
          /\ rows[i].amt = "1,000,000.00"
          /\ \E k \in 1..Len(debitBuf) :
                HasSuffix(SubSeq(debitBuf, 1, k), ",1000000\n")

\* The records of the first upto rows of rs, one row after the other
RECURSIVE RowsInOrder(_, _, _)
RowsInOrder(rs, upto, which) ==
    IF upto <= 0 THEN ""
    ELSE RowsInOrder(rs, upto - 1, which)
             \o EmitRow(upto - 1, Cells(rs[upto]), NoBufs)[which]

\* What each of the first upto sheets of book returns alone, one sheet after
\* the other
RECURSIVE SheetsInOrder(_, _, _)
SheetsInOrder(book, upto, which) ==
    IF upto <= 0 THEN ""
    ELSE SheetsInOrder(book, upto - 1, which)
             \o CleanSpreadsheet([ok |-> TRUE, sheets |-> <<book.sheets[upto]>>])[which]

\* C8 - records keep the order of the sheets and, within a sheet, of the
\* rows: what a sheet has emitted so far is its rows' records in row order,
\* and what a run returns without error is the concatenation, in sheet
\* order, of what each sheet alone returns.
C8_OrderAndAccumulation ==
    /\ pc = "rows" =>
          /\ creditBuf = RowsInOrder(rows, rowIndex, "credit")
          /\ debitBuf = RowsInOrder(rows, rowIndex, "debit")
    /\ (pc = "done" /\ ret.err = "") =>
          /\ ret.credit = SheetsInOrder(wb, Len(wb.sheets), "credit")
          /\ ret.debit = SheetsInOrder(wb, Len(wb.sheets), "debit")

\* C8 witness - a run over several sheets, each emitting at least two
\* credits, has returned without error.
C8_Witness ==
    /\ pc = "done"
    /\ ret.err = ""
    /\ Len(wb.sheets) >= 2
    /\ \A s \in 1..Len(wb.sheets) :
          /\ CountLines(CleanSpreadsheet(
                 [ok |-> TRUE, sheets |-> <<wb.sheets[s]>>]).credit) >= 2
    /\ CountLines(ret.debit) >= 2

\* What C9 says of one step, and of the end of a sheet
C9_Step ==
    (AtRow /\ ~PassesValidation(rowIndex, CurrentRow)) =>
        /\ creditBuf' = creditBuf
        /\ debitBuf' = debitBuf
        /\ creditCSV' = creditCSV
        /\ debitCSV' = debitCSV
        /\ ret' = ret
        /\ pc' = "rows"
        /\ rowIndex' = rowIndex + 1

C9_AllValidEmitted ==
    (pc = "rows" /\ rowIndex = Len(rows)) =>
        CountLines(creditBuf) + CountLines(debitBuf)
            = Cardinality({i \in 1..Len(rows) : PassesValidation(i - 1, rows[i])})

\* C9 - a row that is row index 0, has fewer than 39 cells, has a
\* comma-stripped amount "" or "Amount", or has an unparsable amount is
\* absorbed: the step that takes it adds nothing to either output, returns
\* no error and goes on to the next row; and at the end of a sheet every
\* row that passes validation has its record.
C9_RowFailuresAbsorbed == [][C9_Step]_vars /\ []C9_AllValidEmitted

\* C9 witness - a run has returned records of a sheet that holds a row of
\* each rejected kind and ends with a valid row.
C9_Witness ==
    /\ pc = "done"
    /\ ret.err = ""
    /\ ret.credit # ""
    /\ ret.debit # ""
    /\ Len(wb.sheets) = 2
    /\ \A amt \in {"N/A", "Amount", "", ",", " -5"} :
          \E i \in 2..Len(rows) : rows[i].w >= MinCells /\ rows[i].amt = amt
    /\ \E i \in 2..Len(rows) : rows[i].w = 38
    /\ PassesValidation(Len(rows) - 1, rows[Len(rows)])

\* Request r has a temporary file and has not returned
Holds(r) == hpc[r] # "done" /\ tmpName[r] # ""

C10_Step ==
    \A r \in Reqs :
        /\ (Holds(r) /\ hpc'[r] = "done") => tmpName[r] \notin DOMAIN disk'
        /\ (Holds(r) /\ hpc'[r] # "done")
               => /\ tmpName[r] \in DOMAIN disk'
                  /\ tmpName'[r] = tmpName[r]
                  /\ (hpc'[r] = hpc[r] => disk'[tmpName[r]] = disk[tmpName[r]])

\* Every file of the temporary directory is the file of a running request,
\* and no two requests have the same file
C10_NoLeftover ==
    /\ \A n \in DOMAIN disk : \E r \in Reqs : Holds(r) /\ tmpName[r] = n
    /\ \A r, q \in Reqs : (r # q /\ Holds(r) /\ Holds(q)) => tmpName[r] # tmpName[q]

\* C10 - a request that returns from uploadHandler leaves no temporary file
\* of its own behind, whatever the exit path, and no step of a request
\* removes or changes the temporary file of another request that has not
\* returned.
C10_TempFileRemoved == [][C10_Step /\ C10_NoLeftover']_vars

\* C10 witness - all requests have returned, one after CleanSpreadsheet
\* failed and one with the archive, and the temporary directory is empty.
C10_Witness ==
    /\ \E r, q \in Reqs :
          /\ hpc[r] = "done" /\ resp[r].code = 500
          /\ resp[r].msg = "Error processing file: open"
          /\ hpc[q] = "done" /\ resp[q].code = 200 /\ Len(resp[q].zip) = 2
    /\ \A r \in Reqs : hpc[r] = "done"
    /\ DOMAIN disk = {}
====
